---- MODULE Spec2Model ----
(***************************************************************************)
(* A model of rlox, a tree-walking interpreter for a subset of Lox:        *)
(* the scanner (src/src/scanner.rs), the recursive-descent parser          *)
(* (src/src/parser.rs), the scope chain (src/src/environment.rs) and the   *)
(* statement/expression evaluator (src/src/interpreter.rs), driven the way *)
(* Lox::run and Lox::run_prompt (src/src/lib.rs) drive them.               *)
(*                                                                         *)
(* Numbers are f64 in the source; the model keeps the integral ones, and   *)
(* the programs it runs use no "/" and no "*".                             *)
(***************************************************************************)
EXTENDS Integers, Sequences, FiniteSets, TLC

VARIABLES
    pc,                 \* where the host is: "scan", "parse", "interpret", "done", "panicked"
    tokens,             \* Parser.tokens
    current,            \* Parser.current (0-based index into tokens)
    statements,         \* the Vec<Box<Stmt>> that Parser::parse is building
    static_errors,      \* what Lox::parse_error has reported, in order
    had_error,          \* Lox.had_error
    kont,               \* the statements (and block exits) still to execute
    environment,        \* Interpreter.environment: the scope chain, global scope first
    output,             \* the lines println! has written for Print statements
    diagnostics,        \* what Lox::runtime_error has reported, in order
    had_runtime_error,  \* Lox.had_runtime_error
    panic,              \* the payload of the panic that ended the run, if any
    stdin,              \* the lines run_prompt has still to read (none under run_file)
    scanner             \* the Scanner of Lox::run

vars == << pc, tokens, current, statements, static_errors, had_error, kont,
           environment, output, diagnostics, had_runtime_error, panic, stdin,
           scanner >>

parserVars == << tokens, current, statements, static_errors, had_error >>

(***************************************************************************)
(* Bounds of the model.                                                    *)
(***************************************************************************)
MaxStmts == 2       \* statements of a program handed to Interpreter::interpret
MaxNum == 1         \* number literals are 0..MaxNum
MaxOutput == 4      \* Print stops being taken once this many lines are out

(***************************************************************************)
(* token.rs: Literal (the runtime value type) and Token.                   *)
(***************************************************************************)
Number(n) == [kind |-> "Number", num |-> n]
String(s) == [kind |-> "String", str |-> s]
Bool(b) == [kind |-> "Bool", bool |-> b]
Nil == [kind |-> "Nil"]
None == [kind |-> "None"]       \* Option<Literal>::None

Token(token_type, lexeme, literal, line) ==
    [token_type |-> token_type, lexeme |-> lexeme, literal |-> literal, line |-> line]

\* A token as Scanner::add_token makes it (scanner.rs 225-227), on line 1.
Tok(token_type, lexeme) == Token(token_type, lexeme, Nil, 1)

\* The token Scanner::scan_tokens ends every token vector with (scanner.rs 56).
EofToken == Token("Eof", "", None, 1)

NoToken == Token("None", "", None, 0)

(***************************************************************************)
(* The syntax tree, as parser.rs builds it and interpreter.rs matches it.  *)
(***************************************************************************)
ELiteral(l) == [expr |-> "Literal", literal |-> l]
ELogical(l, op, r) == [expr |-> "Logical", left |-> l, operator |-> op, right |-> r]
EUnary(op, e) == [expr |-> "Unary", operator |-> op, right |-> e]
EBinary(l, op, r) == [expr |-> "Binary", left |-> l, operator |-> op, right |-> r]
EGrouping(e) == [expr |-> "Grouping", inner |-> e]
EVariable(t) == [expr |-> "Variable", name |-> t]
EAssignment(t, e) == [expr |-> "Assignment", name |-> t, value |-> e]
NoExpr == [expr |-> "None"]     \* Option<Expr>::None

SExpr(e) == [stmt |-> "Expr", expression |-> e]
SWhile(c, b) == [stmt |-> "While", condition |-> c, body |-> b]
SIf(c, t, e) == [stmt |-> "If", condition |-> c, then_branch |-> t, else_branch |-> e]
SBlock(ss) == [stmt |-> "Block", statements |-> ss]
SPrint(e) == [stmt |-> "Print", expression |-> e]
SVar(t, init) == [stmt |-> "Var", name |-> t, initializer |-> init]
NoStmt == [stmt |-> "None"]     \* Option<Box<Stmt>>::None

\* Not a statement: the code of the Block arm that follows the loop over the
\* block's statements (interpreter.rs 91-94), waiting on the continuation.
ExitBlock == [stmt |-> "ExitBlock"]

(***************************************************************************)
(* interpreter.rs: RuntimeError.                                           *)
(***************************************************************************)
RuntimeError(token, message) == [token |-> token, message |-> message]
NoError == RuntimeError(NoToken, "")

(***************************************************************************)
(* environment.rs: the scope chain.  A chain is a sequence of scopes, the  *)
(* global scope first and the current scope last; a scope maps names to    *)
(* values.  `enclosing` of the scope at index d is the scope at d - 1.     *)
(***************************************************************************)
EmptyScope == << >>

EnvironmentNew == << EmptyScope >>

EnvironmentFrom(enclosing) == Append(enclosing, EmptyScope)

\* A define that binds in the global scope whatever the current scope is: the
\* fault the block-scoping property has to detect.
define_global(env, name, value) ==
    [env EXCEPT ![1] = (name :> value) @@ @]

define(env, name, value) ==
    [env EXCEPT ![Len(env)] = (name :> value) @@ @]

\* A lookup that walks the chain from the global scope inwards, so that an
\* outer binding hides an inner one: the fault the shadowing property has to
\* detect.
RECURSIVE get_outermost(_, _)
get_outermost(env, name) ==
    IF name.lexeme \in DOMAIN env[1]
    THEN [ok |-> TRUE, val |-> env[1][name.lexeme], err |-> NoError]
    ELSE IF Len(env) > 1
    THEN get_outermost(Tail(env), name)
    ELSE [ok |-> FALSE, val |-> Nil,
          err |-> RuntimeError(name, "Undefined variable " \o name.lexeme \o ".")]

RECURSIVE get(_, _)
get(env, name) ==
    LET d == Len(env) IN
    IF name.lexeme \in DOMAIN env[d]
    THEN [ok |-> TRUE, val |-> env[d][name.lexeme], err |-> NoError]
    ELSE IF d > 1
    THEN get(SubSeq(env, 1, d - 1), name)
    ELSE [ok |-> FALSE, val |-> Nil,
          err |-> RuntimeError(name, "Undefined variable " \o name.lexeme \o ".")]

\* An assign that creates the binding in the global scope when no scope binds
\* the name: the fault the unbound-assignment property has to detect.
RECURSIVE assign_creating(_, _, _)
assign_creating(env, name, value) ==
    LET d == Len(env) IN
    IF name.lexeme \in DOMAIN env[d] \/ d = 1
    THEN [ok |-> TRUE, env |-> [env EXCEPT ![d] = (name.lexeme :> value) @@ @],
          err |-> NoError]
    ELSE LET r == assign_creating(SubSeq(env, 1, d - 1), name, value)
         IN  [ok |-> r.ok, env |-> Append(r.env, env[d]), err |-> r.err]

\* An assign that binds in the current scope when the current scope does not
\* bind the name, instead of walking to the enclosing scopes: the fault the
\* property of assignments inside blocks has to detect.
assign_local(env, name, value) ==
    [ok |-> TRUE, env |-> [env EXCEPT ![Len(env)] = (name.lexeme :> value) @@ @],
     err |-> NoError]

RECURSIVE assign(_, _, _)
assign(env, name, value) ==
    LET d == Len(env) IN
    IF name.lexeme \in DOMAIN env[d]
    THEN [ok |-> TRUE, env |-> [env EXCEPT ![d] = (name.lexeme :> value) @@ @],
          err |-> NoError]
    ELSE IF d > 1
    THEN LET r == assign(SubSeq(env, 1, d - 1), name, value)
         IN  [ok |-> r.ok, env |-> Append(r.env, env[d]), err |-> r.err]
    ELSE [ok |-> FALSE, env |-> env,
          err |-> RuntimeError(name, "Undefined variable " \o name.lexeme \o ".")]

(***************************************************************************)
(* interpreter.rs: expression evaluation.  A result carries the chain as   *)
(* the evaluation left it: tag "Ok" with the value, "Err" with the         *)
(* RuntimeError returned, "Panic" with the payload of an unwrap on Err.    *)
(***************************************************************************)
Ok(v, env) == [tag |-> "Ok", val |-> v, err |-> NoError, env |-> env]
Err(e, env) == [tag |-> "Err", val |-> Nil, err |-> e, env |-> env]
Panic(e, env) == [tag |-> "Panic", val |-> Nil, err |-> e, env |-> env]

is_truthy(value) ==
    CASE value.kind = "Nil" -> FALSE
      [] value.kind = "Bool" -> value.bool
      [] OTHER -> TRUE

evaluate_literal(literal, env) == Ok(literal, env)

BothNumbers(lhs, rhs) == lhs.kind = "Number" /\ rhs.kind = "Number"
BothStrings(lhs, rhs) == lhs.kind = "String" /\ rhs.kind = "String"

\* The match on op.token_type of evaluate_binary, on two evaluated operands.
binary_op(lhs, op, rhs, env) ==
    LET numbers == Err(RuntimeError(op, "Operands must be numbers."), env) IN
    CASE op.token_type = "Greater" ->
            IF BothNumbers(lhs, rhs) THEN Ok(Bool(lhs.num > rhs.num), env) ELSE numbers
      [] op.token_type = "GreaterEqual" ->
            IF BothNumbers(lhs, rhs) THEN Ok(Bool(lhs.num >= rhs.num), env) ELSE numbers
      [] op.token_type = "LessEqual" ->
            IF BothNumbers(lhs, rhs) THEN Ok(Bool(lhs.num <= rhs.num), env) ELSE numbers
      [] op.token_type = "EqualEqual" ->
            IF BothNumbers(lhs, rhs) THEN Ok(Bool(lhs.num = rhs.num), env)
            ELSE IF BothStrings(lhs, rhs) THEN Ok(Bool(lhs.str = rhs.str), env)
            ELSE IF lhs.kind = "Bool" /\ rhs.kind = "Bool"
                 THEN Ok(Bool(lhs.bool = rhs.bool), env)
            ELSE IF lhs.kind = "Nil" /\ rhs.kind = "Nil" THEN Ok(Bool(TRUE), env)
            ELSE Ok(Bool(FALSE), env)
      [] op.token_type = "Less" ->
            IF BothNumbers(lhs, rhs) THEN Ok(Bool(lhs.num < rhs.num), env) ELSE numbers
      [] op.token_type = "Minus" ->
            IF BothNumbers(lhs, rhs) THEN Ok(Number(lhs.num - rhs.num), env) ELSE numbers
      [] op.token_type = "Plus" ->
            IF BothNumbers(lhs, rhs) THEN Ok(Number(lhs.num + rhs.num), env)
            ELSE IF BothStrings(lhs, rhs) THEN Ok(String(lhs.str \o rhs.str), env)
            ELSE Err(RuntimeError(op,
                     "Operands must be either two numbers or two strings."), env)
      [] OTHER ->
            Err(RuntimeError(op, "Operands must be either numbers or strings."), env)

\* The match on op.token_type of evaluate_unary, on the evaluated operand.
unary_op(op, right, env) ==
    CASE op.token_type = "Bang" -> Ok(Bool(is_truthy(right)), env)
      [] op.token_type = "Minus" ->
            IF right.kind = "Number" THEN Ok(Number(right.num * (-1)), env)
            ELSE Err(RuntimeError(op, "Invalid negation operand."), env)
      [] OTHER -> Err(RuntimeError(op, "Invalid unary operand."), env)

\* A Logical arm that always evaluates the right operand: the fault the
\* short-circuit property has to detect.
never_short_circuits(op, left) == FALSE

\* The Logical arm of evaluate once the left operand has its value: whether
\* the right operand is left unevaluated.
short_circuits(op, left) ==
    IF op.token_type = "Or" THEN is_truthy(left) ELSE ~is_truthy(left)

\* The Assignment arm of evaluate once the value is known: assign, unwrapped.
assign_unwrap(env, name, value) ==
    LET a == assign(env, name, value) IN
    IF a.ok THEN Ok(value, a.env) ELSE Panic(a.err, a.env)

RECURSIVE evaluate(_, _)
evaluate(e, env) ==
    CASE e.expr = "Literal" -> evaluate_literal(e.literal, env)
      [] e.expr = "Logical" ->
            LET left == evaluate(e.left, env) IN
            IF left.tag # "Ok" THEN left
            ELSE IF short_circuits(e.operator, left.val) THEN left
            ELSE evaluate(e.right, left.env)
      [] e.expr = "Unary" ->
            LET right == evaluate(e.right, env) IN
            IF right.tag # "Ok" THEN right
            ELSE unary_op(e.operator, right.val, right.env)
      [] e.expr = "Binary" ->
            LET lhs == evaluate(e.left, env) IN
            IF lhs.tag # "Ok" THEN lhs
            ELSE LET rhs == evaluate(e.right, lhs.env) IN
                 IF rhs.tag # "Ok" THEN rhs
                 ELSE binary_op(lhs.val, e.operator, rhs.val, rhs.env)
      [] e.expr = "Grouping" -> evaluate(e.inner, env)
      [] e.expr = "Variable" ->
            LET g == get(env, e.name) IN
            IF g.ok THEN Ok(g.val, env) ELSE Err(g.err, env)
      [] e.expr = "Assignment" ->
            LET value == evaluate(e.value, env) IN
            IF value.tag # "Ok" THEN value
            ELSE assign_unwrap(value.env, e.name, value.val)

(***************************************************************************)
(* The display form the Print arm writes (interpreter.rs 100-113).         *)
(***************************************************************************)
display(l) ==
    CASE l.kind = "Bool" -> IF l.bool THEN "true" ELSE "false"
      [] l.kind = "Number" -> ToString(l.num)
      [] l.kind = "String" -> "\"" \o l.str \o "\""
      [] l.kind = "Nil" -> "nil"

(***************************************************************************)
(* lib.rs: Lox::runtime_error, as the state it leaves.                     *)
(***************************************************************************)
runtime_error(error) ==
    /\ diagnostics' = Append(diagnostics, error)
    /\ had_runtime_error' = TRUE

NoRuntimeError == UNCHANGED << diagnostics, had_runtime_error >>

(***************************************************************************)
(* interpreter.rs: Interpreter::interpret and interpret_statement, one     *)
(* step per statement executed.  `kont` holds, in order, what the loops of *)
(* interpret and of the enclosing Block arms still have to execute.  An    *)
(* Err returned by interpret_statement reaches an unwrap in every caller   *)
(* (line 32 in interpret, line 88 in a Block; If and While hand it on), so *)
(* it ends the run in a panic.                                             *)
(***************************************************************************)
Running == pc = "interpret" /\ kont # << >>

Top == kont[1]

\* Where interpret is once `k` is what is left to execute.
After(k) == IF k = << >> THEN "done" ELSE "interpret"

Continue(k) ==
    /\ kont' = k
    /\ pc' = After(k)
    /\ panic' = panic

Unwind(e) ==
    /\ pc' = "panicked"
    /\ panic' = e
    /\ UNCHANGED kont

\* Stmt::Expr (lines 41-67)
ExecExpr ==
    /\ Running /\ Top.stmt = "Expr"
    /\ LET r == evaluate(Top.expression, environment) IN
       /\ environment' = r.env
       /\ CASE r.tag = "Ok" -> NoRuntimeError /\ Continue(Tail(kont))
            [] r.tag = "Err" -> runtime_error(r.err) /\ Continue(Tail(kont))
            [] r.tag = "Panic" -> NoRuntimeError /\ Unwind(r.err)
    /\ UNCHANGED output
    /\ UNCHANGED << parserVars, stdin, scanner >>

\* Stmt::While (lines 68-73): one evaluation of the condition.
ExecWhile ==
    /\ Running /\ Top.stmt = "While"
    /\ LET r == evaluate(Top.condition, environment) IN
       /\ environment' = r.env
       /\ IF r.tag = "Ok"
          THEN Continue(IF is_truthy(r.val) THEN << Top.body >> \o kont ELSE Tail(kont))
          ELSE Unwind(r.err)
    /\ NoRuntimeError
    /\ UNCHANGED output
    /\ UNCHANGED << parserVars, stdin, scanner >>

\* Stmt::If (lines 75-83)
ExecIf ==
    /\ Running /\ Top.stmt = "If"
    /\ LET r == evaluate(Top.condition, environment) IN
       /\ environment' = r.env
       /\ IF r.tag = "Ok"
          THEN Continue(IF is_truthy(r.val) THEN << Top.then_branch >> \o Tail(kont)
                        ELSE IF Top.else_branch # NoStmt
                        THEN << Top.else_branch >> \o Tail(kont)
                        ELSE Tail(kont))
          ELSE Unwind(r.err)
    /\ NoRuntimeError
    /\ UNCHANGED output
    /\ UNCHANGED << parserVars, stdin, scanner >>

\* Stmt::Block, entry (lines 84-86)
EnterBlock ==
    /\ Running /\ Top.stmt = "Block"
    /\ environment' = EnvironmentFrom(environment)
    /\ Continue(Top.statements \o << ExitBlock >> \o Tail(kont))
    /\ NoRuntimeError
    /\ UNCHANGED output
    /\ UNCHANGED << parserVars, stdin, scanner >>

\* Stmt::Block, exit (lines 91-94)
LeaveBlock ==
    /\ Running /\ Top.stmt = "ExitBlock"
    /\ environment' = IF Len(environment) > 1
                      THEN SubSeq(environment, 1, Len(environment) - 1)
                      ELSE environment
    /\ Continue(Tail(kont))
    /\ NoRuntimeError
    /\ UNCHANGED output
    /\ UNCHANGED << parserVars, stdin, scanner >>

\* Stmt::Print (lines 96-121)
ExecPrint ==
    /\ Running /\ Top.stmt = "Print"
    /\ Len(output) < MaxOutput
    /\ LET r == evaluate(Top.expression, environment) IN
       /\ environment' = r.env
       /\ CASE r.tag = "Ok" ->
                /\ output' = Append(output, display(r.val))
                /\ NoRuntimeError /\ Continue(Tail(kont))
            [] r.tag = "Err" ->
                /\ output' = output
                /\ runtime_error(r.err) /\ Continue(Tail(kont))
            [] r.tag = "Panic" ->
                /\ output' = output
                /\ NoRuntimeError /\ Unwind(r.err)
    /\ UNCHANGED << parserVars, stdin, scanner >>

\* Stmt::Var (lines 122-136)
ExecVar ==
    /\ Running /\ Top.stmt = "Var"
    /\ LET r == IF Top.initializer = NoExpr THEN Ok(Nil, environment)
                ELSE evaluate(Top.initializer, environment)
       IN
       CASE r.tag = "Ok" ->
                /\ environment' = define(r.env, Top.name.lexeme, r.val)
                /\ NoRuntimeError /\ Continue(Tail(kont))
         [] r.tag = "Err" ->
                /\ environment' = define(r.env, Top.name.lexeme, Nil)
                /\ runtime_error(r.err) /\ Continue(Tail(kont))
         [] r.tag = "Panic" ->
                /\ environment' = r.env
                /\ NoRuntimeError /\ Unwind(r.err)
    /\ UNCHANGED output
    /\ UNCHANGED << parserVars, stdin, scanner >>

(***************************************************************************)
(* parser.rs: the cursor.  `cur` is Parser.current; the token vector is    *)
(* the variable `tokens`, which always ends with the Eof token.            *)
(***************************************************************************)
ParseError(token, message) == [token |-> token, message |-> message]
NoParseError == ParseError(NoToken, "")

\* What a grammar function returns, with the cursor as it left it: tag "Ok"
\* with the node, "Err" with the ParseError, "Panic" when it unwrapped an Err.
\* `reported` is what the declarations inside it handed to Lox::parse_error.
POk(node, cur, reported) ==
    [tag |-> "Ok", node |-> node, cur |-> cur, err |-> NoParseError, reported |-> reported]
PErr(err, cur, reported) ==
    [tag |-> "Err", node |-> NoStmt, cur |-> cur, err |-> err, reported |-> reported]
PPanic(err, cur, reported) ==
    [tag |-> "Panic", node |-> NoStmt, cur |-> cur, err |-> err, reported |-> reported]

\* A failed sub-result handed on by `?`, after `reported` was already reported.
Propagate(r, reported) == [r EXCEPT !.reported = reported \o r.reported]

peek(cur) == tokens[cur + 1]

previous(cur) == tokens[cur]

at_end(cur) == peek(cur).token_type = "Eof"

check(cur, token_type) ==
    IF at_end(cur) THEN FALSE ELSE peek(cur).token_type = token_type

\* The cursor after advance().
advance(cur) == IF ~at_end(cur) THEN cur + 1 ELSE cur

\* Whether match_ succeeds on one of `token_types`; it then advances by one.
match_(cur, token_types) == \E t \in token_types : check(cur, t)

consume(cur, token_type, message) ==
    IF check(cur, token_type)
    THEN POk(previous(advance(cur)), advance(cur), << >>)
    ELSE PErr(ParseError(peek(cur), message), cur, << >>)

\* The payload of the panic of previous() when current is 0 (line 401): the
\* subtraction overflows, and where overflow is unchecked the index that
\* wraps around is out of bounds.
PreviousAtZero == ParseError(NoToken, "attempt to subtract with overflow")

\* A recovery that skips nothing: the fault the progress property of parse has
\* to detect.
syncronize_stay(cur) == cur

\* The cursor after syncronize(), or -1 when its first advance() reads
\* previous() at index 0.
RECURSIVE syncronize_loop(_)
syncronize_loop(cur) ==
    IF at_end(cur) THEN cur
    ELSE IF previous(cur).token_type = "Semicolon" THEN cur
    ELSE IF peek(cur).token_type \in
            {"Class", "Fun", "Var", "For", "If", "While", "Print", "Return"}
    THEN cur
    ELSE syncronize_loop(advance(cur))

syncronize(cur) ==
    IF advance(cur) = 0 THEN -1 ELSE syncronize_loop(advance(cur))

(***************************************************************************)
(* parser.rs: expressions (lines 231-366).  A grammar function that goes   *)
(* on after a sub-expression is parsed is written as the function up to    *)
(* that call, applied to the rest of it as an operator of the sub-result.  *)
(***************************************************************************)
RECURSIVE expression(_), assignment(_), or(_), and(_), equality(_), comparison(_)
RECURSIVE term(_), factor(_), unary(_), primary(_)
RECURSIVE or_loop(_), and_loop(_), equality_loop(_), comparison_loop(_)
RECURSIVE term_loop(_), factor_loop(_)

\* The literal the parser gives the keyword `false`, and the one it gives `true`.
false_literal == Bool(TRUE)
true_literal == Bool(FALSE)

\* Expr::Binary / Expr::Logical / Expr::Unary of a right operand parsed with `?`.
binary_node(left, operator, right) ==
    IF right.tag # "Ok" THEN right
    ELSE POk(EBinary(left, operator, right.node), right.cur, << >>)

logical_node(left, operator, right) ==
    IF right.tag # "Ok" THEN right
    ELSE POk(ELogical(left, operator, right.node), right.cur, << >>)

unary_node(operator, right) ==
    IF right.tag # "Ok" THEN right
    ELSE POk(EUnary(operator, right.node), right.cur, << >>)

\* primary, after the expression inside "(" (lines 351-359).
grouping(e) ==
    IF e.tag # "Ok" THEN e
    ELSE LET right_paren == consume(e.cur, peek(e.cur).token_type,
                                    "Expect ')' after expression.")
         IN  IF right_paren.tag = "Ok"
             THEN POk(EGrouping(e.node), right_paren.cur, << >>)
             ELSE right_paren

primary(cur) ==
    IF match_(cur, {"False"}) THEN POk(ELiteral(false_literal), cur + 1, << >>)
    ELSE IF match_(cur, {"True"}) THEN POk(ELiteral(true_literal), cur + 1, << >>)
    ELSE IF match_(cur, {"Nil"}) THEN POk(ELiteral(Nil), cur + 1, << >>)
    ELSE IF match_(cur, {"Number", "String"})
    THEN POk(ELiteral(previous(cur + 1).literal), cur + 1, << >>)
    ELSE IF match_(cur, {"Identifier"}) THEN POk(EVariable(previous(cur + 1)), cur + 1, << >>)
    ELSE IF match_(cur, {"LeftParen"}) THEN grouping(expression(cur + 1))
    ELSE PErr(ParseError(peek(cur), "Expect Expression"), cur, << >>)

unary(cur) ==
    IF match_(cur, {"Bang", "Minus"})
    THEN unary_node(previous(cur + 1), unary(cur + 1))
    ELSE primary(cur)

\* The while loop of each binary level, on the expression parsed so far.
factor_loop(e) ==
    IF e.tag # "Ok" THEN e
    ELSE IF match_(e.cur, {"Slash", "Star"})
    THEN factor_loop(binary_node(e.node, previous(e.cur + 1), unary(e.cur + 1)))
    ELSE e

factor(cur) == factor_loop(unary(cur))

term_loop(e) ==
    IF e.tag # "Ok" THEN e
    ELSE IF match_(e.cur, {"Plus", "Minus"})
    THEN term_loop(binary_node(e.node, previous(e.cur + 1), factor(e.cur + 1)))
    ELSE e

term(cur) == term_loop(factor(cur))

comparison_loop(e) ==
    IF e.tag # "Ok" THEN e
    ELSE IF match_(e.cur, {"Greater", "GreaterEqual", "LessEqual", "Less"})
    THEN comparison_loop(binary_node(e.node, previous(e.cur + 1), term(e.cur + 1)))
    ELSE e

comparison(cur) == comparison_loop(term(cur))

equality_loop(e) ==
    IF e.tag # "Ok" THEN e
    ELSE IF match_(e.cur, {"BangEqual", "EqualEqual"})
    THEN equality_loop(binary_node(e.node, previous(e.cur + 1), comparison(e.cur + 1)))
    ELSE e

equality(cur) == equality_loop(comparison(cur))

and_loop(e) ==
    IF e.tag # "Ok" THEN e
    ELSE IF match_(e.cur, {"Or"})
    THEN and_loop(logical_node(e.node, previous(e.cur + 1), equality(e.cur + 1)))
    ELSE e

and(cur) == and_loop(equality(cur))

or_loop(e) ==
    IF e.tag # "Ok" THEN e
    ELSE IF match_(e.cur, {"Or"})
    THEN or_loop(logical_node(e.node, previous(e.cur + 1), and(e.cur + 1)))
    ELSE e

or(cur) == or_loop(and(cur))

\* assignment, after `value` was parsed (lines 241-247).
assignment_node(e, equals, value) ==
    IF value.tag # "Ok" THEN value
    ELSE IF e.node.expr = "Variable"
    THEN POk(EAssignment(e.node.name, value.node), value.cur, << >>)
    ELSE PErr(ParseError(equals, "Invalid assignment target."), value.cur, << >>)

\* assignment, after `expr` was parsed (lines 238-250).
assignment_target(e) ==
    IF e.tag # "Ok" THEN e
    ELSE IF match_(e.cur, {"Equal"})
    THEN assignment_node(e, previous(e.cur + 1), assignment(e.cur + 1))
    ELSE e

assignment(cur) == assignment_target(or(cur))

expression(cur) == assignment(cur)

(***************************************************************************)
(* lib.rs: what Lox::parse_error hands to Lox::report (lines 104-122).     *)
(***************************************************************************)
parse_error(error) ==
    [line |-> error.token.line,
     location |-> IF error.token.token_type = "Eof" THEN " at end"
                  ELSE "at, " \o error.token.lexeme,
     message |-> error.message]

(***************************************************************************)
(* parser.rs: declarations and statements (lines 57-229).  The cursor      *)
(* given to a statement function is the one after the keyword that         *)
(* `statement` or `declaration` matched.                                   *)
(***************************************************************************)
RECURSIVE declaration(_), statement(_), block_statement(_), block_loop(_, _, _)
RECURSIVE if_statement(_), while_statement(_), for_statement(_)

\* var_declaration, after the initializer (lines 86-90).
var_node(name, initializer) ==
    IF initializer.tag # "Ok" THEN initializer
    ELSE LET semi == consume(initializer.cur, "Semicolon",
                             "Expect ';' after variable declaration.")
         IN  IF semi.tag # "Ok" THEN semi
             ELSE POk(SVar(name.node, initializer.node), semi.cur, << >>)

var_declaration(cur) ==
    LET name == consume(cur, "Identifier", "Expect variable name.") IN
    IF name.tag # "Ok" THEN name
    ELSE var_node(name, IF match_(name.cur, {"Equal"}) THEN expression(name.cur + 1)
                        ELSE POk(ELiteral(Nil), name.cur, << >>))

\* print_statement, after the expression (lines 200-211).
print_node(value) ==
    IF value.tag # "Ok" THEN value
    ELSE LET semi == consume(value.cur, "Semicolon", "Expect ';' after value.") IN
         IF semi.tag # "Ok" THEN semi
         ELSE POk(SPrint(value.node), semi.cur, << >>)

print_statement(cur) == print_node(expression(cur))

\* expression_statement, after the expression (lines 216-228).
expression_node(expr) ==
    IF expr.tag # "Ok" THEN expr
    ELSE LET semi == consume(expr.cur, "Semicolon", "Expect ';' after expression.") IN
         IF semi.tag # "Ok" THEN semi
         ELSE POk(SExpr(expr.node), semi.cur, << >>)

expression_statement(cur) == expression_node(expression(cur))

\* while_statement, after the body (line 117).
while_node(condition, body) ==
    IF body.tag # "Ok" THEN body
    ELSE POk(SWhile(condition.node, body.node), body.cur, body.reported)

\* while_statement, after the condition (lines 112-116).
while_body(condition) ==
    IF condition.tag # "Ok" THEN condition
    ELSE LET rp == consume(condition.cur, "RightParen", "Expect ')' after 'condition'") IN
         IF rp.tag # "Ok" THEN rp
         ELSE while_node(condition, statement(rp.cur))

while_statement(cur) ==
    LET lp == consume(cur, "LeftParen", "Expect '(' after 'while'.") IN
    IF lp.tag # "Ok" THEN lp
    ELSE while_body(expression(lp.cur))

\* A desugaring that puts the increment before the body and drops the
\* initializer with its block: the fault the property of for loops has to
\* detect.
for_node_increment_first(initializer, condition, increment, body) ==
    IF body.tag # "Ok" THEN body
    ELSE POk(SWhile(IF condition.node = NoExpr THEN ELiteral(Bool(TRUE))
                    ELSE condition.node,
                    IF increment.node # NoExpr
                    THEN SBlock(<< SExpr(increment.node), body.node >>)
                    ELSE body.node),
             body.cur, body.reported)

\* for_statement, after the body (lines 147-160).
for_node(initializer, condition, increment, body) ==
    IF body.tag # "Ok" THEN body
    ELSE LET body1 == IF increment.node # NoExpr
                      THEN SBlock(<< body.node, SExpr(increment.node) >>)
                      ELSE body.node
             cond == IF condition.node = NoExpr THEN ELiteral(Bool(TRUE))
                     ELSE condition.node
             body2 == SWhile(cond, body1)
             body3 == IF initializer.node # NoStmt
                      THEN SBlock(<< initializer.node, body2 >>)
                      ELSE body2
         IN  POk(body3, body.cur, body.reported)

\* for_statement, after the increment (lines 144-145).
for_body(initializer, condition, increment) ==
    IF increment.tag # "Ok" THEN increment
    ELSE LET rp == consume(increment.cur, "RightParen", "Expect ')' after for clauses.") IN
         IF rp.tag # "Ok" THEN rp
         ELSE for_node(initializer, condition, increment, statement(rp.cur))

\* for_statement, after the condition (lines 137-142).
for_increment(initializer, condition) ==
    IF condition.tag # "Ok" THEN condition
    ELSE LET semi == consume(condition.cur, "Semicolon",
                             "Expect ';' after loop condition.")
         IN  IF semi.tag # "Ok" THEN semi
             ELSE for_body(initializer, condition,
                           IF ~check(semi.cur, "RightParen") THEN expression(semi.cur)
                           ELSE POk(NoExpr, semi.cur, << >>))

\* for_statement, after the initializer (lines 132-135).
for_condition(initializer) ==
    IF initializer.tag # "Ok" THEN initializer
    ELSE for_increment(initializer,
                       IF ~check(initializer.cur, "Semicolon")
                       THEN expression(initializer.cur)
                       ELSE POk(NoExpr, initializer.cur, << >>))

for_statement(cur) ==
    LET lp == consume(cur, "LeftParen", "Expect '(' after 'for'.") IN
    IF lp.tag # "Ok" THEN lp
    ELSE for_condition(IF match_(lp.cur, {"Semicolon"}) THEN POk(NoStmt, lp.cur + 1, << >>)
                       ELSE IF match_(lp.cur, {"Var"}) THEN var_declaration(lp.cur + 1)
                       ELSE expression_statement(lp.cur))

\* if_statement, after the else branch (lines 173-178).
if_else_node(condition, then_branch, else_branch) ==
    IF else_branch.tag # "Ok" THEN Propagate(else_branch, then_branch.reported)
    ELSE POk(SIf(condition.node, then_branch.node, else_branch.node),
             else_branch.cur, then_branch.reported \o else_branch.reported)

\* if_statement, after the then branch (lines 172-181).
if_node(condition, then_branch) ==
    IF then_branch.tag # "Ok" THEN then_branch
    ELSE IF match_(then_branch.cur, {"Else"})
    THEN if_else_node(condition, then_branch, statement(then_branch.cur + 1))
    ELSE POk(SIf(condition.node, then_branch.node, NoStmt),
             then_branch.cur, then_branch.reported)

\* if_statement, after the condition, which it unwraps (lines 165-171).
if_then(condition) ==
    IF condition.tag # "Ok" THEN PPanic(condition.err, condition.cur, << >>)
    ELSE LET rp == consume(condition.cur, "RightParen", "Expect ')' after condition.") IN
         IF rp.tag # "Ok" THEN rp
         ELSE if_node(condition, statement(rp.cur))

if_statement(cur) ==
    LET lp == consume(cur, "LeftParen", "Expect '(' after 'if'.") IN
    IF lp.tag # "Ok" THEN lp
    ELSE if_then(expression(lp.cur))

\* One turn of the loop of block_statement after its declaration (lines
\* 187-193), then the consume that follows the loop (lines 194-195).
block_turn(d, stmts, reported) ==
    IF d.tag = "Panic" THEN Propagate(d, reported)
    ELSE LET stmts1 == IF d.node # NoStmt THEN Append(stmts, d.node) ELSE stmts
             reported1 == reported \o d.reported
         IN  IF check(d.cur, "RightBrace") \/ at_end(d.cur)
             THEN LET rb == consume(d.cur, "RightBrace", "Expect '}' after block.") IN
                  IF rb.tag # "Ok" THEN Propagate(rb, reported1)
                  ELSE POk(SBlock(stmts1), rb.cur, reported1)
             ELSE block_loop(d.cur, stmts1, reported1)

block_loop(cur, stmts, reported) == block_turn(declaration(cur), stmts, reported)

block_statement(cur) == block_loop(cur, << >>, << >>)

statement(cur) ==
    IF match_(cur, {"If"}) THEN if_statement(cur + 1)
    ELSE IF match_(cur, {"For"}) THEN for_statement(cur + 1)
    ELSE IF match_(cur, {"Print"}) THEN print_statement(cur + 1)
    ELSE IF match_(cur, {"While"}) THEN while_statement(cur + 1)
    ELSE IF match_(cur, {"LeftBrace"}) THEN block_statement(cur + 1)
    ELSE expression_statement(cur)

\* The match of declaration on what var_declaration or statement returned:
\* Some(s) is an Ok result with node s, None an Ok result with node NoStmt.
recover(r) ==
    CASE r.tag = "Ok" -> r
      [] r.tag = "Panic" -> r
      [] r.tag = "Err" ->
            LET c == syncronize(r.cur) IN
            IF c < 0 THEN PPanic(PreviousAtZero, r.cur, r.reported)
            ELSE POk(NoStmt, c, Append(r.reported, parse_error(r.err)))

declaration(cur) ==
    recover(IF match_(cur, {"Var"}) THEN var_declaration(cur + 1) ELSE statement(cur))

(***************************************************************************)
(* Parser::parse (lines 46-56): one turn of its loop, and lib.rs Lox::run  *)
(* (lines 66-75) once parse has returned.                                  *)
(***************************************************************************)
interpreterVars == << kont, environment, output, diagnostics, had_runtime_error >>

\* The match of parse on what declaration returned.
push(d) ==
    /\ current' = d.cur
    /\ static_errors' = static_errors \o d.reported
    /\ IF d.tag = "Panic"
       THEN /\ pc' = "panicked"
            /\ panic' = d.err
            /\ UNCHANGED statements
       ELSE /\ pc' = "parse"
            /\ panic' = panic
            /\ statements' = IF d.node # NoStmt THEN Append(statements, d.node)
                             ELSE statements

Parse ==
    /\ pc = "parse" /\ ~at_end(current)
    /\ push(declaration(current))
    /\ UNCHANGED << tokens, had_error, stdin, scanner >>
    /\ UNCHANGED interpreterVars

Run ==
    /\ pc = "parse" /\ at_end(current)
    /\ IF had_error
       THEN /\ pc' = "done"
            /\ UNCHANGED << kont, environment >>
       ELSE /\ pc' = After(statements)
            /\ kont' = statements
            /\ environment' = EnvironmentNew
    /\ UNCHANGED << output, diagnostics, had_runtime_error, panic >>
    /\ UNCHANGED << parserVars, stdin, scanner >>

\* Lox::run_prompt (lib.rs 53-64): run has returned, the flag is reset and the
\* next line is read and handed to run.  An empty read ends the loop.
Prompt ==
    /\ pc = "done" /\ stdin # << >>
    /\ had_error' = FALSE
    /\ tokens' = stdin[1]
    /\ stdin' = Tail(stdin)
    /\ current' = 0
    /\ statements' = << >>
    /\ pc' = "parse"
    /\ UNCHANGED << static_errors, panic, scanner >>
    /\ UNCHANGED interpreterVars

(***************************************************************************)
(* scanner.rs: the scanner.  A source is a sequence of chars, a char a     *)
(* string that spells it.  The scanner indexes the chars of the source     *)
(* (chars().nth) but bounds its cursor by the source's length in bytes     *)
(* (source.len()), so the model keeps the UTF-8 width of every char.       *)
(* `reported` is what a call has handed to Lox::error; `panicked` is set   *)
(* by an unwrap of chars().nth past the last char.  The sources the model  *)
(* scans hold no '.', so every number literal is integral.                 *)
(***************************************************************************)
Section == "\\u00a7"        \* U+00A7, the section sign: two bytes in UTF-8
NoChar == "None"            \* chars().nth(n) with no n-th char
Nul == "\\0"

Digits == { "0", "1", "2", "3", "4", "5", "6", "7", "8", "9" }

Letters ==
    { "a", "b", "c", "d", "e", "f", "g", "h", "i", "j", "k", "l", "m", "n", "o",
      "p", "q", "r", "s", "t", "u", "v", "w", "x", "y", "z", "A", "B", "C", "D",
      "E", "F", "G", "H", "I", "J", "K", "L", "M", "N", "O", "P", "Q", "R", "S",
      "T", "U", "V", "W", "X", "Y", "Z" }

is_digit(c) == c \in Digits
is_alphabetic(c) == c \in Letters
is_alphanumeric(c) == is_alphabetic(c) \/ is_digit(c)

len_utf8(c) == IF c = Section THEN 2 ELSE 1

\* String::len: the length in bytes.
RECURSIVE len(_)
len(source) == IF source = << >> THEN 0 ELSE len_utf8(Head(source)) + len(Tail(source))

\* chars().nth(n)
nth(source, n) == IF n < Len(source) THEN source[n + 1] ELSE NoChar

\* chars().skip(s).take(n)
skip_take(source, s, n) ==
    SubSeq(source, s + 1, IF s + n < Len(source) THEN s + n ELSE Len(source))

\* collect::<String>()
RECURSIVE collect(_)
collect(chars) == IF chars = << >> THEN "" ELSE Head(chars) \o collect(Tail(chars))

\* parse::<f64>() of the digits of an integral literal.
RECURSIVE parse_f64(_)
parse_f64(chars) ==
    IF chars = << >> THEN 0
    ELSE 10 * parse_f64(SubSeq(chars, 1, Len(chars) - 1))
         + (CHOOSE n \in 0 .. 9 : ToString(n) = chars[Len(chars)])

KEYWORDS(text) ==
    CASE text = "and" -> "And"
      [] text = "class" -> "Class"
      [] text = "else" -> "Else"
      [] text = "false" -> "False"
      [] text = "for" -> "For"
      [] text = "fun" -> "Fun"
      [] text = "if" -> "If"
      [] text = "nil" -> "Nil"
      [] text = "or" -> "Or"
      [] text = "print" -> "Print"
      [] text = "return" -> "Return"
      [] text = "super" -> "Super"
      [] text = "this" -> "This"
      [] text = "true" -> "True"
      [] text = "var" -> "Var"
      [] text = "while" -> "While"
      [] OTHER -> "Identifier"

ScannerNew(source) ==
    [source |-> source, tokens |-> << >>, start |-> 0, current |-> 0, line |-> 1,
     reported |-> << >>, panicked |-> FALSE]

\* Lox::error (lib.rs 95-97), as the record Lox::report writes.
error(line, message) == [line |-> line, location |-> "", message |-> message]

scanner_at_end(sc) == sc.current >= len(sc.source)

\* The char under the cursor: NoChar where the unwrap of peek, advance or
\* match_ panics.
scanner_peek(sc) == IF scanner_at_end(sc) THEN Nul ELSE nth(sc.source, sc.current)

scanner_peek_next(sc) ==
    IF sc.current + 1 >= len(sc.source) THEN Nul ELSE nth(sc.source, sc.current + 1)

unwrap_none(sc) == [sc EXCEPT !.panicked = TRUE]

scanner_advance(sc) ==
    IF nth(sc.source, sc.current) = NoChar THEN unwrap_none(sc)
    ELSE [sc EXCEPT !.current = @ + 1]

add_full_token(sc, token_type, literal) ==
    [sc EXCEPT !.tokens =
        Append(@, Token(token_type,
                        collect(skip_take(sc.source, sc.start, sc.current - sc.start)),
                        literal, sc.line))]

add_token(sc, token_type) == add_full_token(sc, token_type, Nil)

\* `match self.match_(expected)` with the token added in either arm.
scanner_match(sc, expected, matched, otherwise) ==
    IF scanner_at_end(sc) THEN add_token(sc, otherwise)
    ELSE IF nth(sc.source, sc.current) = NoChar THEN unwrap_none(sc)
    ELSE IF nth(sc.source, sc.current) = expected
    THEN add_token([sc EXCEPT !.current = @ + 1], matched)
    ELSE add_token(sc, otherwise)

\* The loop of the '/' arm over a comment.
RECURSIVE comment(_)
comment(sc) ==
    IF scanner_at_end(sc) THEN sc
    ELSE IF scanner_peek(sc) = NoChar THEN unwrap_none(sc)
    ELSE IF scanner_peek(sc) = "\n" THEN sc
    ELSE comment(scanner_advance(sc))

slash(sc) ==
    IF scanner_at_end(sc) THEN add_token(sc, "Slash")
    ELSE IF nth(sc.source, sc.current) = NoChar THEN unwrap_none(sc)
    ELSE IF nth(sc.source, sc.current) = "/"
    THEN comment([sc EXCEPT !.current = @ + 1])
    ELSE add_token(sc, "Slash")

RECURSIVE identifier_loop(_)
identifier_loop(sc) ==
    IF scanner_peek(sc) = NoChar THEN unwrap_none(sc)
    ELSE IF is_alphanumeric(scanner_peek(sc)) THEN identifier_loop(scanner_advance(sc))
    ELSE sc

identifier_token(sc) ==
    IF sc.panicked THEN sc
    ELSE add_token(sc, KEYWORDS(collect(skip_take(sc.source, sc.start,
                                                  sc.current - sc.start))))

identifier(sc) == identifier_token(identifier_loop(sc))

RECURSIVE digits(_)
digits(sc) ==
    IF scanner_peek(sc) = NoChar THEN unwrap_none(sc)
    ELSE IF is_digit(scanner_peek(sc)) THEN digits(scanner_advance(sc))
    ELSE sc

fraction(sc) ==
    IF sc.panicked \/ scanner_peek(sc) # "." THEN sc
    ELSE IF scanner_peek_next(sc) = NoChar THEN unwrap_none(sc)
    ELSE IF is_digit(scanner_peek_next(sc)) THEN digits(scanner_advance(sc))
    ELSE sc

number_token(sc) ==
    IF sc.panicked THEN sc
    ELSE add_full_token(sc, "Number",
            Number(parse_f64(skip_take(sc.source, sc.start, sc.current - sc.start))))

number(sc) == number_token(fraction(digits(sc)))

RECURSIVE string_loop(_)
string_loop(sc) ==
    IF scanner_at_end(sc) THEN sc
    ELSE IF scanner_peek(sc) = NoChar THEN unwrap_none(sc)
    ELSE IF scanner_peek(sc) = "\"" THEN sc
    ELSE string_loop([sc EXCEPT !.current = @ + 1,
                                !.line = IF scanner_peek(sc) = "\n" THEN @ + 1 ELSE @])

\* string() after its loop.  text.len() counts bytes, take() counts chars.
string_token(sc) ==
    IF sc.panicked THEN sc
    ELSE IF scanner_at_end(sc)
    THEN [sc EXCEPT !.reported = Append(@, error(sc.line, "Unterminated string."))]
    ELSE IF nth(sc.source, sc.current) = NoChar THEN unwrap_none(sc)
    ELSE LET closed == [sc EXCEPT !.current = @ + 1]
             text == skip_take(closed.source, closed.start, closed.current - closed.start)
         IN  add_full_token(closed, "String",
                            String(collect(skip_take(text, 1, len(text) - 2))))

string(sc) == string_token(string_loop(sc))

\* scan_token once advance() has returned c.
scan_char(sc, c) ==
    CASE c = "(" -> add_token(sc, "LeftParen")
      [] c = ")" -> add_token(sc, "RightParen")
      [] c = "{" -> add_token(sc, "LeftBrace")
      [] c = "}" -> add_token(sc, "RightBrace")
      [] c = "," -> add_token(sc, "Comma")
      [] c = "." -> add_token(sc, "Dot")
      [] c = "-" -> add_token(sc, "Minus")
      [] c = "+" -> add_token(sc, "Plus")
      [] c = ";" -> add_token(sc, "Semicolon")
      [] c = "*" -> add_token(sc, "Star")
      [] c = "!" -> scanner_match(sc, "=", "BangEqual", "Bang")
      [] c = "=" -> scanner_match(sc, "=", "EqualEqual", "Equal")
      [] c = "<" -> scanner_match(sc, "=", "LessEqual", "Less")
      [] c = ">" -> scanner_match(sc, "=", "GreaterEqual", "Greater")
      [] c = "/" -> slash(sc)
      [] c \in { " ", "\r", "\t" } -> sc
      [] c = "\n" -> [sc EXCEPT !.line = @ + 1]
      [] c = "\"" -> string(sc)
      [] OTHER ->
            IF is_digit(c) THEN number(sc)
            ELSE IF is_alphabetic(c) THEN identifier(sc)
            ELSE [sc EXCEPT !.reported = Append(@, error(sc.line, "Unexpected character"))]

scan_token(sc) ==
    IF nth(sc.source, sc.current) = NoChar THEN unwrap_none(sc)
    ELSE scan_char([sc EXCEPT !.current = @ + 1], nth(sc.source, sc.current))

\* Scanner::scan_tokens (lines 51-59): one turn of its loop.
ScanToken ==
    /\ pc = "scan" /\ ~scanner_at_end(scanner)
    /\ LET sc == scan_token([scanner EXCEPT !.start = scanner.current]) IN
       /\ scanner' = [sc EXCEPT !.reported = << >>]
       /\ static_errors' = static_errors \o sc.reported
       /\ IF sc.panicked
          THEN /\ pc' = "panicked"
               /\ panic' = RuntimeError(NoToken,
                               "called Option::unwrap() on a None value")
          ELSE UNCHANGED << pc, panic >>
    /\ UNCHANGED << tokens, current, statements, had_error, stdin >>
    /\ UNCHANGED interpreterVars

\* Scanner::scan_tokens once the loop has ended, and Parser::new on what it
\* returns (lib.rs 68-69).
ScanEnd ==
    /\ pc = "scan" /\ scanner_at_end(scanner)
    /\ LET end_of_file == Token("Eof", "", None, scanner.line) IN
       /\ scanner' = [scanner EXCEPT !.tokens = Append(@, end_of_file)]
       /\ tokens' = Append(scanner.tokens, end_of_file)
    /\ current' = 0
    /\ pc' = "parse"
    /\ UNCHANGED << statements, static_errors, had_error, panic, stdin >>
    /\ UNCHANGED interpreterVars

(***************************************************************************)
(* The inputs.  Values, names and operator tokens.                         *)
(***************************************************************************)
Numbers == 0 .. MaxNum

Values == { Number(n) : n \in Numbers } \cup { String(""), String("a") }
          \cup { Bool(TRUE), Bool(FALSE), Nil }

x == Tok("Identifier", "x")
y == Tok("Identifier", "y")
Names == { x, y }

NumberToken(n) == Token("Number", ToString(n), Number(n), 1)
StringToken(str) == Token("String", "\"" \o str \o "\"", String(str), 1)

Minus == Tok("Minus", "-")
Plus == Tok("Plus", "+")
Bang == Tok("Bang", "!")
Less == Tok("Less", "<")
EqualEqual == Tok("EqualEqual", "==")
BangEqual == Tok("BangEqual", "!=")
And == Tok("And", "and")
Or == Tok("Or", "or")

\* An expression whose evaluation returns Err: -"a".
Faulty == EUnary(Minus, ELiteral(String("a")))

(***************************************************************************)
(* Programs handed to Interpreter::interpret as syntax trees.              *)
(***************************************************************************)
\* The statements that are no blocks, conditionals or loops.
LeafStmts ==
    { SExpr(e) : e \in { EAssignment(x, ELiteral(String("a"))), Faulty } }
    \cup { SPrint(e) : e \in { ELiteral(Number(MaxNum)), EVariable(x),
                               EAssignment(x, ELiteral(String("a"))), Faulty } }
    \cup { SVar(x, e) : e \in { ELiteral(Number(MaxNum)), Faulty, NoExpr,
                                EAssignment(y, ELiteral(Nil)) } }

\* The statements blocks are built from.
InnerStmts ==
    { SVar(x, ELiteral(Number(0))), SExpr(EAssignment(x, ELiteral(String("")))),
      SPrint(EVariable(x)), SPrint(Faulty),
      SWhile(Faulty, SPrint(EVariable(x))) }

Blocks ==
    { SBlock(<< >>) } \cup { SBlock(<< a >>) : a \in InnerStmts }
    \cup { SBlock(<< SVar(x, ELiteral(Number(0))), b >>) : b \in InnerStmts }
    \cup { SBlock(<< SBlock(<< SVar(x, ELiteral(Number(0))), b >>), SPrint(EVariable(x)) >>) :
             b \in { SExpr(EAssignment(x, ELiteral(String("")))), SPrint(EVariable(x)),
                     SWhile(Faulty, SPrint(EVariable(x))) } }

Conditionals ==
    { SIf(c, SPrint(ELiteral(Number(0))), e) :
        c \in { ELiteral(Bool(TRUE)), EVariable(x), Faulty },
        e \in { NoStmt, SExpr(EAssignment(x, ELiteral(Nil))) } }
    \cup { SWhile(c, b) :
        c \in { EVariable(x), Faulty },
        b \in { SExpr(EAssignment(x, ELiteral(Nil))),
                SBlock(<< SPrint(EVariable(x)), SExpr(EAssignment(x, ELiteral(Bool(FALSE)))) >>) } }

TopStmts == LeafStmts \cup Blocks \cup Conditionals

RECURSIVE SeqsUpTo(_, _)
SeqsUpTo(S, n) ==
    IF n = 0 THEN { << >> }
    ELSE LET shorter == SeqsUpTo(S, n - 1) IN
         shorter \cup { Append(s, e) : s \in { t \in shorter : Len(t) = n - 1 }, e \in S }

\* print a op b; for every pair of values.
BinaryPrograms ==
    { << SPrint(EBinary(ELiteral(a), op, ELiteral(b))) >> :
        a \in Values, b \in Values, op \in { EqualEqual, BangEqual, Less, Plus, Minus } }

\* print !a;  print -a;
UnaryPrograms ==
    { << SPrint(EUnary(op, ELiteral(a))) >> : a \in Values, op \in { Bang, Minus } }

\* var x = 0; print a op (x = b); print x;
LogicalPrograms ==
    { << SVar(x, ELiteral(Number(0))),
         SPrint(ELogical(ELiteral(a), op, EAssignment(x, ELiteral(b)))),
         SPrint(EVariable(x)) >> :
        a \in Values, b \in Values, op \in { And, Or } }

Programs ==
    SeqsUpTo(TopStmts, MaxStmts) \cup BinaryPrograms \cup UnaryPrograms
    \cup LogicalPrograms

(***************************************************************************)
(* Sources handed to Lox::run, as the token vectors the scanner makes of   *)
(* them.                                                                   *)
(***************************************************************************)
Semicolon == Tok("Semicolon", ";")
LeftParen == Tok("LeftParen", "(")
RightParen == Tok("RightParen", ")")
LeftBrace == Tok("LeftBrace", "{")
RightBrace == Tok("RightBrace", "}")
Equal == Tok("Equal", "=")
PrintToken == Tok("Print", "print")
VarToken == Tok("Var", "var")
IfToken == Tok("If", "if")
ElseToken == Tok("Else", "else")
TrueToken == Tok("True", "true")
FalseToken == Tok("False", "false")
NilToken == Tok("Nil", "nil")
WhileToken == Tok("While", "while")
ForToken == Tok("For", "for")
ClassToken == Tok("Class", "class")

Source(toks) == Append(toks, EofToken)

\* The tokens short sources are built from.
TokenPool ==
    { x, NumberToken(MaxNum), Semicolon, LeftParen, RightParen, LeftBrace, RightBrace,
      Equal, PrintToken, VarToken, Plus }

Operands == { x, y, NumberToken(0), TrueToken }

\* a op b;   a op b op c;   print a op b;
LogicalSources ==
    { << a, op, b, Semicolon >> : a, b \in Operands, op \in { And, Or } }
    \cup { << PrintToken, a, op, b, Semicolon >> : a, b \in Operands, op \in { And, Or } }
    \cup { << a, op1, b, op2, x, Semicolon >> :
             a, b \in { x, y }, op1 \in { And, Or }, op2 \in { And, Or } }

LiteralTokens == { TrueToken, FalseToken, NilToken, NumberToken(0), StringToken("a") }

\* print l;   if (l) print 1; else print 0;   if (l) print 1;
LiteralSources ==
    { << PrintToken, l, Semicolon >> : l \in LiteralTokens }
    \cup { << IfToken, LeftParen, l, RightParen, PrintToken, NumberToken(1), Semicolon,
              ElseToken, PrintToken, NumberToken(0), Semicolon >> : l \in LiteralTokens }
    \cup { << IfToken, LeftParen, l, RightParen, PrintToken, NumberToken(1), Semicolon >> :
              l \in LiteralTokens }

\* { var x = "a"; } print x;
BlockVarSource ==
    << LeftBrace, VarToken, x, Equal, StringToken("a"), Semicolon, RightBrace,
       PrintToken, x, Semicolon >>

\* { var x = 0; x = 1; } print x;
BlockAssignSource ==
    << LeftBrace, VarToken, x, Equal, NumberToken(0), Semicolon,
       x, Equal, NumberToken(1), Semicolon, RightBrace, PrintToken, x, Semicolon >>

\* var x = 1; { var x = 0; print x; } print x;
ShadowSource ==
    << VarToken, x, Equal, NumberToken(1), Semicolon,
       LeftBrace, VarToken, x, Equal, NumberToken(0), Semicolon, PrintToken, x, Semicolon,
       RightBrace, PrintToken, x, Semicolon >>

\* var x = 1; { var x = 0; x = "a"; { print x; } } print x;
NestedShadowSource ==
    << VarToken, x, Equal, NumberToken(1), Semicolon,
       LeftBrace, VarToken, x, Equal, NumberToken(0), Semicolon,
       x, Equal, StringToken("a"), Semicolon,
       LeftBrace, PrintToken, x, Semicolon, RightBrace,
       RightBrace, PrintToken, x, Semicolon >>

\* var x = "foo"; var x = "bar"; print x;
RedefineSource ==
    << VarToken, x, Equal, StringToken("foo"), Semicolon,
       VarToken, x, Equal, StringToken("bar"), Semicolon, PrintToken, x, Semicolon >>

\* var x = 0; while (x < 3) { print x; x = x + 1; }
CountSource ==
    << VarToken, x, Equal, NumberToken(0), Semicolon,
       WhileToken, LeftParen, x, Less, NumberToken(3), RightParen,
       LeftBrace, PrintToken, x, Semicolon,
       x, Equal, x, Plus, NumberToken(1), Semicolon, RightBrace >>

\* var x = 0; { { x = 1; } print x; } print x;
NestedAssignSource ==
    << VarToken, x, Equal, NumberToken(0), Semicolon,
       LeftBrace, LeftBrace, x, Equal, NumberToken(1), Semicolon, RightBrace,
       PrintToken, x, Semicolon, RightBrace, PrintToken, x, Semicolon >>

\* { } print 0;
EmptyBlockSource == << LeftBrace, RightBrace, PrintToken, NumberToken(0), Semicolon >>

\* The three clauses of a loop over x:  var x = 0;   x < 3;   x = x + 1
ForInit == << VarToken, x, Equal, NumberToken(0), Semicolon >>
ForCond == << x, Less, NumberToken(3) >>
ForIncr == << x, Equal, x, Plus, NumberToken(1) >>
ForBody == << PrintToken, x, Semicolon >>

\* for (var x = 0; x < 3; x = x + 1) print x; print x;
ForSource ==
    << ForToken, LeftParen >> \o ForInit \o ForCond \o << Semicolon >> \o ForIncr
    \o << RightParen >> \o ForBody \o << PrintToken, x, Semicolon >>

\* { var x = 0; while (x < 3) { print x; x = x + 1; } } print x;
ForDesugared ==
    << LeftBrace >> \o ForInit \o << WhileToken, LeftParen >> \o ForCond
    \o << RightParen, LeftBrace >> \o ForBody \o ForIncr
    \o << Semicolon, RightBrace, RightBrace, PrintToken, x, Semicolon >>

\* for (var x = 0; ; x = x + 1) print x; print x;
ForEverSource ==
    << ForToken, LeftParen >> \o ForInit \o << Semicolon >> \o ForIncr
    \o << RightParen >> \o ForBody \o << PrintToken, x, Semicolon >>

\* var x = 0; for (; x < 3;) x = x + 1; print x;
ForBareSource ==
    ForInit \o << ForToken, LeftParen, Semicolon >> \o ForCond
    \o << Semicolon, RightParen >> \o ForIncr \o << Semicolon, PrintToken, x, Semicolon >>

ForSources ==
    { ForSource, ForDesugared, ForEverSource, ForBareSource }

ScopeSources ==
    { BlockVarSource, BlockAssignSource, ShadowSource, NestedShadowSource, RedefineSource,
      EmptyBlockSource, CountSource, NestedAssignSource }

\* What may follow the inner expression of `( x`.
AfterInner == { RightParen, Semicolon, RightBrace, x }

\* ( x t ;   and   ( x
GroupingSources ==
    { << LeftParen, x, t, Semicolon >> : t \in AfterInner } \cup { << LeftParen, x >> }

\* One malformed statement:  print ;   x x;   1 + ;   if ();   print 1
Malformed ==
    { << PrintToken, Semicolon >>, << x, x, Semicolon >>,
      << NumberToken(1), Plus, Semicolon >>,
      << IfToken, LeftParen, RightParen, Semicolon >>,
      << PrintToken, NumberToken(1) >> }

\* print 0;  n times over.
RECURSIVE WellFormed(_)
WellFormed(n) ==
    IF n = 0 THEN << >>
    ELSE << PrintToken, NumberToken(0), Semicolon >> \o WellFormed(n - 1)

\* One malformed statement followed by n well-formed ones.
RecoverySources == { m \o WellFormed(n) : m \in Malformed, n \in 0 .. MaxStmts }

\* A keyword with at most one token before it and one after it:
\* if   { while   x class ;   for ( ;   ...
Keywords == { IfToken, ElseToken, WhileToken, ForToken, ClassToken }

Around == { << >>, << x >>, << Semicolon >>, << LeftBrace >>, << LeftParen >> }

KeywordSources == { a \o << k >> \o b : a \in Around, b \in Around, k \in Keywords }

MaxTokens == 3

\* Lines typed at the prompt:  var x = 0;   x = 1;   print x;   print ;
ReplLines ==
    { << VarToken, x, Equal, NumberToken(0), Semicolon >>,
      << x, Equal, NumberToken(1), Semicolon >>,
      << PrintToken, x, Semicolon >>,
      << PrintToken, Semicolon >> }

MaxLines == 2

\* What run_prompt reads in one session.
Sessions == { s \in SeqsUpTo({ Source(l) : l \in ReplLines }, MaxLines) : s # << >> }

Sources ==
    { Source(s) : s \in SeqsUpTo(TokenPool, MaxTokens) \cup LogicalSources
                        \cup LiteralSources \cup ScopeSources \cup RecoverySources
                        \cup GroupingSources \cup ForSources
                        \cup KeywordSources }

(***************************************************************************)
(* Source texts handed to Lox::run, as chars.                              *)
(***************************************************************************)
MaxChars == 3

SourceChars == { "x", "_", "1", "\"", "\n", "@", ";", Section }

\* _x   my_var   x_1   _
UnderscoreTexts ==
    { << "_", "x" >>, << "m", "y", "_", "v", "a", "r" >>, << "x", "_", "1" >>, << "_" >> }

SourceTexts == SeqsUpTo(SourceChars, MaxChars) \cup UnderscoreTexts

(***************************************************************************)
(* The system: either Interpreter::interpret is handed a program, or       *)
(* Lox::run is handed a source.                                            *)
(***************************************************************************)
Init ==
    /\ \/ /\ tokens = Source(<< >>)
          /\ kont \in Programs
          /\ pc = After(kont)
          /\ stdin = << >>
          /\ scanner = ScannerNew(<< >>)
       \/ /\ tokens \in Sources
          /\ kont = << >>
          /\ pc = "parse"
          /\ stdin = << >>
          /\ scanner = ScannerNew(<< >>)
       \/ /\ \E s \in Sessions : tokens = s[1] /\ stdin = Tail(s)
          /\ kont = << >>
          /\ pc = "parse"
          /\ scanner = ScannerNew(<< >>)
       \/ /\ \E source \in SourceTexts : scanner = ScannerNew(source)
          /\ tokens = << >>
          /\ kont = << >>
          /\ pc = "scan"
          /\ stdin = << >>
    /\ current = 0
    /\ statements = << >>
    /\ static_errors = << >>
    /\ had_error = FALSE
    /\ environment = EnvironmentNew
    /\ output = << >>
    /\ diagnostics = << >>
    /\ had_runtime_error = FALSE
    /\ panic = NoError

Next ==
    \/ ScanToken
    \/ ScanEnd
    \/ Prompt
    \/ Parse
    \/ Run
    \/ ExecExpr
    \/ ExecWhile
    \/ ExecIf
    \/ EnterBlock
    \/ LeaveBlock
    \/ ExecPrint
    \/ ExecVar

Spec == Init /\ [][Next]_vars

(***************************************************************************)
(* What the claims speak of.                                               *)
(***************************************************************************)
\* Every binding of the chain, with the depth of its scope.
BindingsOf(env) ==
    UNION { { << d, n, env[d][n] >> : n \in DOMAIN env[d] } : d \in 1 .. Len(env) }

\* Whether some scope of the chain binds the name.
Bound(env, name) == \E d \in 1 .. Len(env) : name.lexeme \in DOMAIN env[d]

\* The chain without its current scope.
Enclosing(env) == SubSeq(env, 1, Len(env) - 1)

Undefined(name) == RuntimeError(name, "Undefined variable " \o name.lexeme \o ".")

\* The interpreter ended in a panic while executing a statement (a panic of
\* the parser leaves nothing to execute).
InterpreterPanicked == pc = "panicked" /\ kont # << >>

Falsy(v) == v = Nil \/ v = Bool(FALSE)

\* C1: once a runtime error has been reported, no later statement of the same
\* interpret call executes: nothing more is printed, and no binding is defined
\* or assigned.
C1_RuntimeErrorAbortsRest ==
    [][ had_runtime_error =>
            /\ output' = output
            /\ BindingsOf(environment') \subseteq BindingsOf(environment) ]_vars

\* C2: no runtime error ends the interpreter in a panic: every one is reported
\* and control returns to the host.
C2_NoRuntimeErrorPanics == ~InterpreterPanicked

\* C3: when the interpret call has ended, normally or by a runtime error, every
\* block entered has restored the environment it found: the current scope is
\* the global scope again.
C3_BlockRestoresEnvironment ==
    pc \in { "done", "panicked" } => Len(environment) = 1

\* C4: a variable declared inside a block is not visible after the block, even
\* if reassigned inside it: no statement creates a binding in an enclosing
\* scope, a name bound only in the block's scope is unbound once the block has
\* exited, and printing an unbound name reports "Undefined variable" and prints
\* nothing.
C4_BlockVariableNotVisibleAfter ==
    /\ [][ Running =>
            /\ \A d \in 1 .. (Len(environment) - 1) :
                 d <= Len(environment') => DOMAIN environment'[d] = DOMAIN environment[d]
            /\ Top = ExitBlock /\ Len(environment) > 1 =>
                 \A n \in Names :
                    (n.lexeme \in DOMAIN environment[Len(environment)]
                        /\ ~Bound(Enclosing(environment), n))
                    => ~Bound(environment', n)
            /\ (Top.stmt = "Print" /\ Top.expression.expr = "Variable"
                    /\ ~Bound(environment, Top.expression.name)) =>
                 /\ output' = output
                 /\ diagnostics' = Append(diagnostics, Undefined(Top.expression.name))
                 /\ pc' # "panicked" ]_vars
    /\ [](\A src \in { BlockVarSource, BlockAssignSource } :
            (tokens = Source(src) /\ pc = "done") =>
                /\ output = << >>
                /\ diagnostics = << Undefined(x) >>
                /\ environment = << EmptyScope >>)

C4_Witness ==
    /\ tokens = Source(BlockAssignSource)
    /\ pc = "done"
    /\ output = << >>
    /\ diagnostics = << Undefined(x) >>

\* C5: assigning to a name no scope of the chain binds fails with the
\* "Undefined variable" runtime error and leaves every scope unchanged; no
\* binding is created, in the current scope or in the global one.
C5_AssignUnboundFails ==
    /\ [](\A n \in Names, v \in Values :
            ~Bound(environment, n) =>
                assign(environment, n, v) = [ok |-> FALSE, env |-> environment,
                                             err |-> Undefined(n)])
    /\ [][ (Running /\ Top.stmt = "Expr" /\ Top.expression.expr = "Assignment"
                /\ Top.expression.value.expr = "Literal"
                /\ ~Bound(environment, Top.expression.name)) =>
              /\ environment' = environment
              /\ panic' = Undefined(Top.expression.name) ]_vars

C5_Witness ==
    /\ InterpreterPanicked
    /\ Top = SExpr(EAssignment(x, ELiteral(String(""))))
    /\ panic = Undefined(x)
    /\ environment = << EmptyScope, EmptyScope >>

\* C6: a define in a block scope of a name an enclosing scope binds shadows it:
\* inside the block the name reads as the new value, the enclosing scopes are
\* untouched, and after the block the name reads as the outer value again.
C6_ShadowingLeavesOuterBinding ==
    /\ [][ (Running /\ Top.stmt = "Var" /\ Len(environment) > 1
                /\ Top.initializer.expr = "Literal"
                /\ Bound(Enclosing(environment), Top.name)) =>
              /\ get(environment', Top.name).ok
              /\ get(environment', Top.name).val = Top.initializer.literal
              /\ Enclosing(environment') = Enclosing(environment) ]_vars
    /\ [][ (Running /\ Top = ExitBlock /\ Len(environment) > 1) =>
              \A n \in Names :
                 Bound(Enclosing(environment), n) =>
                    get(environment', n) = get(Enclosing(environment), n) ]_vars
    /\ []((tokens = Source(ShadowSource) /\ pc = "done") =>
            (output = << "0", "1" >> /\ environment = << [x |-> Number(1)] >>))
    /\ []((tokens = Source(NestedShadowSource) /\ pc = "done") =>
            (output = << "\"a\"", "1" >> /\ environment = << [x |-> Number(1)] >>))

C6_Witness ==
    /\ tokens = Source(ShadowSource)
    /\ pc = "done"
    /\ output = << "0", "1" >>

\* C7: a Logical node whose left operand is falsy under `and`, or truthy under
\* `or`, yields the left value and does not evaluate the right operand (an
\* assignment there leaves the environment unchanged); in every other case it
\* yields the value of the right operand, which is evaluated.
C7_LogicalShortCircuits ==
    [][ (Running /\ Top.stmt = "Print" /\ Top.expression.expr = "Logical"
            /\ Top.expression.operator.token_type \in { "And", "Or" }
            /\ Top.expression.left.expr = "Literal"
            /\ Top.expression.right.expr = "Assignment"
            /\ Top.expression.right.value.expr = "Literal"
            /\ Bound(environment, Top.expression.right.name)) =>
          LET left == Top.expression.left.literal
              right == Top.expression.right.value.literal
              short == IF Top.expression.operator.token_type = "Or"
                       THEN ~Falsy(left) ELSE Falsy(left)
          IN  IF short
              THEN /\ output' = Append(output, display(left))
                   /\ environment' = environment
              ELSE /\ output' = Append(output, display(right))
                   /\ get(environment', Top.expression.right.name).val = right ]_vars

C7_Witness ==
    /\ pc = "interpret"
    /\ kont = << SPrint(EVariable(x)) >>
    /\ output = << "false" >>
    /\ environment = << [x |-> Number(0)] >>

\* C8: the parser accepts `and` as a binary logical operator: `a and b;` parses
\* without error into a Logical node whose operator is the `and` token, and
\* `and` binds tighter than `or`.
C8_ParserAcceptsAnd ==
    /\ \A a, b \in { x, y } :
         (tokens = Source(<< a, And, b, Semicolon >>) /\ pc # "parse") =>
            /\ static_errors = << >>
            /\ statements = << SExpr(ELogical(EVariable(a), And, EVariable(b))) >>
    /\ (tokens = Source(<< x, Or, y, And, x, Semicolon >>) /\ pc # "parse") =>
            /\ static_errors = << >>
            /\ statements = << SExpr(ELogical(EVariable(x), Or,
                                              ELogical(EVariable(y), And, EVariable(x)))) >>

\* C9: boolean literals have their conventional values: `print true;` prints
\* true, `print false;` prints false, and `if (true) print 1; else print 0;`
\* prints 1.
C9_BooleanLiterals ==
    /\ (tokens = Source(<< PrintToken, TrueToken, Semicolon >>) /\ pc = "done") =>
            output = << "true" >>
    /\ (tokens = Source(<< PrintToken, FalseToken, Semicolon >>) /\ pc = "done") =>
            output = << "false" >>
    /\ (tokens = Source(<< IfToken, LeftParen, TrueToken, RightParen,
                           PrintToken, NumberToken(1), Semicolon,
                           ElseToken, PrintToken, NumberToken(0), Semicolon >>)
            /\ pc = "done") =>
            output = << "1" >>

\* C10: on every pair of values `==` and `!=` evaluate to a Bool and raise no
\* runtime error: `==` is true exactly for the same value of the same type, and
\* `!=` is its negation.
C10_EqualityIsTotal ==
    [][ (Running /\ Top.stmt = "Print" /\ Top.expression.expr = "Binary"
            /\ Top.expression.operator.token_type \in { "EqualEqual", "BangEqual" }
            /\ Top.expression.left.expr = "Literal"
            /\ Top.expression.right.expr = "Literal") =>
          LET same == Top.expression.left.literal = Top.expression.right.literal
              result == IF Top.expression.operator.token_type = "EqualEqual"
                        THEN same ELSE ~same
          IN  /\ diagnostics' = diagnostics
              /\ output' = Append(output, display(Bool(result))) ]_vars

\* C11: unary `!` on any value raises no runtime error and yields the negation
\* of the operand's truthiness: `print !v;` prints true for nil and false, and
\* false for every other value.
C11_BangNegatesTruthiness ==
    [][ (Running /\ Top.stmt = "Print" /\ Top.expression.expr = "Unary"
            /\ Top.expression.operator.token_type = "Bang"
            /\ Top.expression.right.expr = "Literal") =>
          /\ diagnostics' = diagnostics
          /\ output' = Append(output,
                 display(Bool(Falsy(Top.expression.right.literal)))) ]_vars

\* C12: a source made of one malformed statement followed by n well-formed
\* statements reports exactly one parse error, and the n statements are all
\* parsed, in order, and executed.
C12_RecoveryKeepsWellFormed ==
    \A m \in Malformed, n \in 0 .. MaxStmts :
        tokens = Source(m \o WellFormed(n)) =>
            /\ pc # "panicked"
            /\ pc # "parse" =>
                 /\ Len(static_errors) = 1
                 /\ statements = [i \in 1 .. n |-> SPrint(ELiteral(Number(0)))]
            /\ pc = "done" => output = [i \in 1 .. n |-> "0"]

\* C13: once a static error has been reported for a source, the had-error flag
\* is set and no statement of that source is executed in that run: the
\* interpreter is handed nothing, prints nothing and binds nothing.
C13_StaticErrorSuppressesExecution ==
    static_errors # << >> =>
        /\ had_error
        /\ kont = << >>
        /\ output = << >>
        /\ environment = EnvironmentNew

\* C14: under run_prompt the interpreter's state outlives a run: from the end of
\* one line's run until the interpreter starts on the next line, every variable
\* bound by the earlier lines keeps its binding and its last value, while the
\* had-error flag is reset before the next line is parsed.
C14_ReplStatePersists ==
    /\ [][ (pc = "done" \/ pc = "parse") =>
             (\A n \in Names :
                Bound(environment, n) => get(environment', n) = get(environment, n)) ]_vars
    /\ [][ (pc = "done" /\ pc' = "parse") => ~had_error' ]_vars

\* Exactly one end-of-input token, in the last place.
EndsWithOneEof(toks) ==
    /\ toks # << >>
    /\ \A i \in 1 .. Len(toks) : toks[i].token_type = "Eof" <=> i = Len(toks)

NonDecreasingLines(toks) ==
    \A i \in 1 .. Len(toks) : \A j \in i .. Len(toks) : toks[i].line <= toks[j].line

\* C15: for every source text scan_tokens returns, and what it returns holds
\* exactly one end-of-input token, in the last place, and line numbers that
\* never decrease along the sequence.
C15_ScanEndsWithOneEof ==
    /\ [](~scanner.panicked)
    /\ [](NonDecreasingLines(scanner.tokens))
    /\ [][ (pc = "scan" /\ pc' # "scan") =>
              (EndsWithOneEof(tokens') /\ NonDecreasingLines(tokens')) ]_vars

\* C16: a parenthesized expression whose inner expression is followed by a
\* token other than `)`, or by the end of input, is the parse error
\* "Expect ')' after expression." and yields no statement; the Grouping node is
\* produced only when that token is `)`.
C16_GroupingNeedsRightParen ==
    /\ \A t \in AfterInner :
         (tokens = Source(<< LeftParen, x, t, Semicolon >>) /\ pc # "parse") =>
            IF t = RightParen
            THEN /\ static_errors = << >>
                 /\ statements = << SExpr(EGrouping(EVariable(x))) >>
            ELSE /\ statements = << >>
                 /\ static_errors # << >>
                 /\ static_errors[1].message = "Expect ')' after expression."
    /\ (tokens = Source(<< LeftParen, x >>) /\ pc # "parse") =>
            /\ statements = << >>
            /\ static_errors # << >>
            /\ static_errors[1].message = "Expect ')' after expression."

\* C17: a Print statement whose expression evaluates to a String writes the
\* string's text and nothing else, no quote characters around it:
\* `var x = "foo"; var x = "bar"; print x;` writes the line bar.
C17_PrintWritesRawString ==
    /\ [][ (Running /\ Top.stmt = "Print"
                /\ evaluate(Top.expression, environment).tag = "Ok"
                /\ evaluate(Top.expression, environment).val.kind = "String") =>
              output' = Append(output, evaluate(Top.expression, environment).val.str) ]_vars
    /\ []((tokens = Source(RedefineSource) /\ pc = "done") => output = << "bar" >>)

\* C18: a block may hold no declaration: `{ }` parses without a parse error into
\* a Block of no statements, and what follows it is parsed normally.
C18_EmptyBlockParses ==
    /\ (tokens = Source(<< LeftBrace, RightBrace >>) /\ pc # "parse") =>
            /\ static_errors = << >>
            /\ statements = << SBlock(<< >>) >>
    /\ (tokens = Source(EmptyBlockSource) /\ pc # "parse") =>
            /\ static_errors = << >>
            /\ statements = << SBlock(<< >>), SPrint(ELiteral(Number(0))) >>

\* C19: the underscore is an identifier character: a lexeme that starts with a
\* letter or `_` and goes on with letters, digits or `_` is scanned as one
\* Identifier token, and the scan reports no error.
C19_UnderscoreInIdentifiers ==
    /\ []((scanner.source \in UnderscoreTexts /\ pc = "scan") => static_errors = << >>)
    /\ [][ (scanner.source \in UnderscoreTexts /\ pc = "scan" /\ pc' # "scan") =>
              tokens' = << Token("Identifier", collect(scanner.source), Nil, 1),
                           Token("Eof", "", None, 1) >> ]_vars

\* The depth of the innermost scope of the chain that binds the name.
Innermost(env, name) ==
    CHOOSE d \in 1 .. Len(env) :
        /\ name.lexeme \in DOMAIN env[d]
        /\ \A e \in (d + 1) .. Len(env) : name.lexeme \notin DOMAIN env[e]

\* C20: an assignment executed inside a block, at any depth and in any iteration
\* of a while loop, to a variable an enclosing scope binds writes that scope's
\* binding and no other, and leaving a block keeps every enclosing scope as it
\* is: the value is still there after the block.  So
\* `var x = 0; while (x < 3) { print x; x = x + 1; }` prints 0, 1, 2 and ends
\* with x = 3 in the global scope.
C20_BlockAssignmentPersists ==
    /\ [][ (Running /\ Top.stmt = "Expr" /\ Top.expression.expr = "Assignment"
                /\ Len(environment) > 1
                /\ Bound(environment, Top.expression.name)
                /\ evaluate(Top.expression.value, environment).tag = "Ok") =>
              LET name == Top.expression.name
                  d == Innermost(environment, name)
              IN  environment' =
                     [environment EXCEPT ![d][name.lexeme] =
                         evaluate(Top.expression.value, environment).val] ]_vars
    /\ [][ (Running /\ Top = ExitBlock /\ Len(environment) > 1) =>
              environment' = Enclosing(environment) ]_vars
    /\ []((tokens = Source(CountSource) /\ pc \in { "interpret", "done", "panicked" }) =>
            /\ static_errors = << >> /\ diagnostics = << >> /\ pc # "panicked"
            /\ pc = "done" =>
                 (output = << "0", "1", "2" >> /\ environment = << [x |-> Number(3)] >>))
    /\ []((tokens = Source(NestedAssignSource) /\ pc = "done") =>
            (output = << "1", "1" >> /\ environment = << [x |-> Number(1)] >>))

C20_Witness ==
    /\ tokens = Source(CountSource)
    /\ pc = "done"
    /\ output = << "0", "1", "2" >>
    /\ environment = << [x |-> Number(3)] >>

\* What the parser makes of the loop over x with condition `cond`, followed by
\* `print x;`:  { var x = 0; while (cond) { print x; x = x + 1; } } print x;
ForParsed(cond) ==
    << SBlock(<< SVar(x, ELiteral(Number(0))),
                 SWhile(cond,
                        SBlock(<< SPrint(EVariable(x)),
                                  SExpr(EAssignment(x, EBinary(EVariable(x), Plus,
                                                               ELiteral(Number(1))))) >>)) >>),
       SPrint(EVariable(x)) >>

Parsed == pc \in { "interpret", "done", "panicked" }

\* The lines a loop that prints x = 0, 1, 2, ... has written after n turns.
RECURSIVE Counted(_)
Counted(n) == IF n = 0 THEN << >> ELSE Append(Counted(n - 1), ToString(n - 1))

\* C21: `for (init; cond; incr) body` is parsed into the very statement that
\* `{ init; while (cond) { body; incr; } }` is parsed into, a missing condition
\* into the literal true, so the two execute alike: the initializer runs once
\* in the scope of the block, the increment runs after the body in every
\* iteration (the loop over x < 3 prints 0, 1, 2), the variable the initializer
\* declares is unbound after the loop (`print x;` reports it undefined), and
\* the loop without a condition never ends.
C21_ForDesugars ==
    /\ []((tokens \in { Source(ForSource), Source(ForDesugared) } /\ Parsed) =>
            /\ statements = ForParsed(EBinary(EVariable(x), Less, ELiteral(Number(3))))
            /\ static_errors = << >> /\ pc # "panicked"
            /\ \E n \in 0 .. 3 : output = Counted(n)
            /\ (Running /\ Top.stmt \in { "While", "Print", "Expr" } /\ Len(kont) > 1) =>
                 (Len(environment) \in { 2, 3 } /\ environment[1] = EmptyScope
                    /\ DOMAIN environment[2] = { "x" })
            /\ pc = "done" =>
                 /\ output = << "0", "1", "2" >>
                 /\ environment = EnvironmentNew
                 /\ diagnostics = << RuntimeError(x, "Undefined variable x.") >>)
    /\ []((tokens = Source(ForEverSource) /\ Parsed) =>
            /\ statements = ForParsed(ELiteral(Bool(TRUE)))
            /\ static_errors = << >> /\ diagnostics = << >>
            /\ pc = "interpret"
            /\ \E n \in 0 .. MaxOutput : output = Counted(n))

\* The for loop has run to its end and `print x;` after it has been executed.
C21_Witness ==
    /\ tokens = Source(ForSource)
    /\ pc = "done"
    /\ output = << "0", "1", "2" >>
    /\ diagnostics = << RuntimeError(x, "Undefined variable x.") >>

\* The cursors declaration can be called at: parse calls it when the cursor is
\* not at the end of input, block_statement after at least the `{`.
DeclarationCursors ==
    { cur \in 0 .. (Len(tokens) - 1) : cur > 0 \/ ~at_end(cur) }

\* What declaration called at `cur` returned, `d`, leaves the cursor on a token
\* of the vector, and it is further on or on the end-of-input token; it did not
\* end in the panic of previous() at index 0.
Progress(cur, d) ==
    /\ d.cur \in cur .. (Len(tokens) - 1)
    /\ d.cur > cur \/ at_end(d.cur)
    /\ ~(d.tag = "Panic" /\ d.err = PreviousAtZero)

\* C22: on every token vector that ends with the end-of-input token, every
\* call of declaration, from parse or from a block, whether it returns a
\* statement or reports an error and synchronizes, leaves the cursor further
\* on or on the end-of-input token and never past it, and previous() is never
\* read at index 0; so every turn of the loop of parse moves the cursor towards
\* the end of input, which it reaches after at most as many turns as there
\* are tokens.
C22_ParseTerminates ==
    /\ []((pc = "parse" /\ current = 0) =>
            /\ tokens # << >> /\ tokens[Len(tokens)].token_type = "Eof"
            /\ \A cur \in DeclarationCursors : Progress(cur, declaration(cur)))
    /\ [][ Parse => /\ current' \in current .. (Len(tokens) - 1)
                    /\ current' > current \/ at_end(current')
                    /\ Len(statements') <= current' ]_vars
    /\ [](panic # PreviousAtZero)

\* Parse has recovered from an error inside a block and has gone on to the end
\* of input.
C22_Witness ==
    /\ pc = "parse" /\ at_end(current)
    /\ current > 0
    /\ static_errors # << >>
    /\ \E i \in 1 .. Len(tokens) : tokens[i].token_type = "LeftBrace"

====
